---- MODULE Spec2Model ----
(***************************************************************************)
(* State-machine model of src/script/redis-manager.ts: the RedisManager    *)
(* response cache and deployment-metrics aggregator in front of a Redis    *)
(* store, together with the store itself (two logical databases), the two  *)
(* client handles and the clock that drives key expiry.                    *)
(*                                                                         *)
(* Every public method is one call of a caller p \in Procs; each promise   *)
(* continuation of the method (each store command it issues) is one        *)
(* action.  A store command is atomic at the server: the step that issues  *)
(* it also applies it and delivers the reply, or fails it.                 *)
(***************************************************************************)
EXTENDS Integers, Sequences, FiniteSets, TLC

(***************************************************************************)
(* Bounds of the model.                                                    *)
(***************************************************************************)
NumCalls == 2        \* number of public-method calls (callers) in a behaviour
TickStep == 1800     \* seconds per clock advance (half the default expiry)

Procs == 1..NumCalls

(***************************************************************************)
(* Program constants.                                                      *)
(***************************************************************************)
DEPLOYMENT_SUCCEEDED == "DeploymentSucceeded"
DEPLOYMENT_FAILED == "DeploymentFailed"
ACTIVE == "Active"
DOWNLOADED == "Downloaded"
DEFAULT_EXPIRY == 3600
METRICS_DB == 1
OPS_DB == 0

(***************************************************************************)
(* JavaScript values.  A value is written as its source literal.           *)
(***************************************************************************)
Null == "null"
Undefined == "undefined"
NoExpiry == 0 - 1

Truthy(v) == v \notin {Null, Undefined, ""}

(***************************************************************************)
(* Input domains.                                                          *)
(***************************************************************************)
EnvValues == {Undefined, "", "set"}
ExpiryKeys == {"v1"}
Urls == {"/updateCheck", "/other"}
ROk == "{statusCode:200,body:{ok:true}}"
RNaN == "{statusCode:200,body:NaN}"
RNullBody == "{statusCode:200,body:null}"
RCyclic == "{statusCode:200,body:<cyclic>}"
Responses == {ROk, RNaN, RCyclic, Undefined}
DeploymentKeys == {"dep1", "dep2"}
Labels == {"v1", "v2"}
LabelInputs == Labels \cup {""}
IncLabels == {"v1"}
CurrentKeys == {"dep1"}
PreviousKeys == {Undefined} \cup DeploymentKeys
PreviousLabels == {Undefined, "v1"}
StatusInputs == {DEPLOYMENT_SUCCEEDED, DOWNLOADED, "Unknown"}
ClientIds == {"c1"}
ToLabels == {"v1", ""}
FromLabels == {Undefined, "v2"}
StoredTexts == {"7", "", "abc"}
StoredFields == {"v1:Active", "note"}

(***************************************************************************)
(* JSON.stringify and JSON.parse on the values above.  stringify throws on *)
(* a cyclic structure, returns undefined for undefined and writes NaN as   *)
(* null; parse throws on a text that is not JSON.                          *)
(***************************************************************************)
Throws == "<throws>"
TextOk == "{\"statusCode\":200,\"body\":{\"ok\":true}}"
TextNullBody == "{\"statusCode\":200,\"body\":null}"

\* texts a cache field can hold: a serialized response, nothing, not JSON
CachedTexts == {TextOk, "", "{not json"}

JSONStringify(v) ==
  CASE v = ROk -> TextOk
    [] v = RNaN -> TextNullBody
    [] v = RNullBody -> TextNullBody
    [] v = Undefined -> Undefined
    [] OTHER -> Throws

JSONParse(text) ==
  CASE text = TextOk -> ROk
    [] text = TextNullBody -> RNullBody
    [] OTHER -> Throws

(***************************************************************************)
(* Decimal strings: Redis keeps a counter as the decimal text of an        *)
(* integer; HINCRBY parses it and the unary + of JavaScript converts it.   *)
(***************************************************************************)
Digits == <<"0", "1", "2", "3", "4", "5", "6", "7", "8", "9">>
DecRange == (0 - 9)..9

DecStr(n) == IF n < 0 THEN "-" \o Digits[(0 - n) + 1] ELSE Digits[n + 1]

IsDec(s) == \E n \in DecRange : DecStr(n) = s

ParseDec(s) == CHOOSE n \in DecRange : DecStr(n) = s

\* !isNaN(s): the text converts to a number.  The empty text converts to 0.
IsNumeric(s) == IsDec(s) \/ s = ""

\* +s
ToNumber(s) == IF s = "" THEN 0 ELSE ParseDec(s)

\* !isNaN(x) ? +x : x
ToNumberIfNumeric(s) == IF IsNumeric(s) THEN ToNumber(s) ELSE s

(***************************************************************************)
(* Utilities                                                               *)
(***************************************************************************)
isValidDeploymentStatus(status) ==
  status = DEPLOYMENT_SUCCEEDED \/ status = DEPLOYMENT_FAILED \/ status = DOWNLOADED

\* a faulty field name that leaves the label out
getLabelStatusFieldWithoutLabel(label, status) ==
  IF isValidDeploymentStatus(status) THEN ":" \o status ELSE Null

getLabelStatusField(label, status) ==
  IF isValidDeploymentStatus(status) THEN label \o ":" \o status ELSE Null

getLabelActiveCountField(label) ==
  IF Truthy(label) THEN label \o ":" \o ACTIVE ELSE Null

getDeploymentKeyLabelsHash(deploymentKey) == "deploymentKeyLabels:" \o deploymentKey

getDeploymentKeyClientsHash(deploymentKey) == "deploymentKeyClients:" \o deploymentKey

\* an expiryKey and a url that spell the name of a label-counters hash and of
\* one of its fields
CollidingKey == getDeploymentKeyLabelsHash("dep1")
CollidingUrl == getLabelStatusField("v1", DOWNLOADED)

\* the cache keys the calls are made with
CacheKeys == ExpiryKeys \cup {CollidingKey}

(***************************************************************************)
(* The store.  A logical database is a finite map from the keys that exist *)
(* to [type, val, ttl]: a hash (val maps its fields to strings) or a       *)
(* string, with ttl the seconds the key has left to live, or NoExpiry.     *)
(***************************************************************************)
EmptyMap == [x \in {} |-> Null]

Without(m, ks) == [x \in (DOMAIN m) \ ks |-> m[x]]

With(m, k, v) == [x \in (DOMAIN m) \cup {k} |-> IF x = k THEN v ELSE m[x]]

IsHash(db, key) == key \in DOMAIN db /\ db[key].type = "hash"

\* EXISTS key
DbExists(db, key) == IF key \in DOMAIN db THEN 1 ELSE 0

\* HGET key field: the value, or a null reply
DbHGet(db, key, field) ==
  IF IsHash(db, key) /\ field \in DOMAIN db[key].val THEN db[key].val[field] ELSE Null

\* HGETALL key: the client turns the empty reply into null
DbHGetAll(db, key) == IF IsHash(db, key) THEN db[key].val ELSE Null

\* HSET key field value: creates the hash, without an expiry, when the key is absent
DbHSet(db, key, field, value) ==
  IF key \in DOMAIN db
    THEN With(db, key, [db[key] EXCEPT !.val = With(@, field, value)])
    ELSE With(db, key, [type |-> "hash", val |-> With(EmptyMap, field, value), ttl |-> NoExpiry])

\* a faulty HINCRBY that never lets a counter fall below 0
DbHIncrByClamped(db, key, field, n) ==
  LET v == ParseDec(IF DbHGet(db, key, field) = Null THEN "0" ELSE DbHGet(db, key, field)) + n
  IN DbHSet(db, key, field, DecStr(IF v < 0 THEN 0 ELSE v))

\* HINCRBY key field n: an absent field counts as 0
DbHIncrBy(db, key, field, n) ==
  DbHSet(db, key, field, DecStr(ParseDec(IF DbHGet(db, key, field) = Null THEN "0" ELSE DbHGet(db, key, field)) + n))

\* SET key value
DbSet(db, key, value) == With(db, key, [type |-> "string", val |-> value, ttl |-> NoExpiry])

\* DEL key [key ...]
DbDel(db, keys) == Without(db, keys)

\* HDEL key field: a hash left without fields is removed
DbHDel(db, key, field) ==
  IF ~IsHash(db, key) THEN db
  ELSE IF DOMAIN db[key].val \subseteq {field} THEN Without(db, {key})
  ELSE With(db, key, [db[key] EXCEPT !.val = Without(@, {field})])

\* EXPIRE key seconds
DbExpire(db, key, seconds) ==
  IF key \in DOMAIN db THEN With(db, key, [db[key] EXCEPT !.ttl = seconds]) ELSE db

\* TTL key
DbTTL(db, key) == IF key \in DOMAIN db THEN db[key].ttl ELSE NoExpiry

\* the keys of db that expire within the next dt seconds
Expiring(db, dt) == {k \in DOMAIN db : db[k].ttl # NoExpiry /\ db[k].ttl <= dt}

\* db after dt seconds: the expired keys are gone, the others have less to live
DbAfter(db, dt) ==
  [k \in (DOMAIN db) \ Expiring(db, dt) |->
     IF db[k].ttl = NoExpiry THEN db[k] ELSE [db[k] EXCEPT !.ttl = @ - dt]]

(***************************************************************************)
(* State.                                                                  *)
(***************************************************************************)
VARIABLES
  env,            \* process.env: [REDIS_HOST, REDIS_PORT]
  opsClient,      \* _opsClient: Undefined, or the handle's state
  metricsClient,  \* _metricsClient: Undefined, or the handle's state
  selectedDb,     \* the logical database the metrics connection has selected
  setupPromise,   \* _setupMetricsClientPromise: NoPromise, or the index of an attempt
  attempts,       \* the setup attempts started so far, each with its state
  store,          \* the logical databases of the store
  call,           \* call[p]: the public method caller p invoked, with its arguments
  pc,             \* pc[p]: "idle", the continuation the call waits in, or "done"
  result,         \* result[p]: how the call ended, as the caller sees it
  isNewKey,       \* isNewKey[p]: the local of setCachedResponse
  awaiting,       \* awaiting[p]: the setup attempt whose promise the call holds
  batch,          \* batch[p]: the commands queued on the call's batch client
  cmds,           \* cmds[p]: the store commands the call issued, with their outcome
  lastWriter,     \* lastWriter[k]: the caller whose command last wrote cache key k
  tornRead,       \* whether another client of the store has read a torn batch
  pings           \* pings[p]: the state of the two pings of a checkHealth call

vars ==
  <<env, opsClient, metricsClient, selectedDb, setupPromise, attempts, store,
    call, pc, result, isNewKey, awaiting, batch, cmds, lastWriter, tornRead, pings>>

connVars == <<env, opsClient, metricsClient>>
setupVars == <<selectedDb, setupPromise, attempts>>
cacheGhost == <<lastWriter>>

(***************************************************************************)
(* The two handles: redis.createClient returns a handle that is not ready  *)
(* until it has connected; it drops back to connecting when the connection *)
(* is lost and ends for good when the retries are used up.                 *)
(***************************************************************************)
HandleStates == {"connecting", "ready", "ended"}

Ready(client) == client = "ready"

\* a faulty isEnabled that follows the readiness of the handles
isEnabledWhenReady == Ready(opsClient) /\ Ready(metricsClient)

isEnabled == opsClient # Undefined /\ metricsClient # Undefined

NoCall ==
  [op |-> "none", expiryKey |-> Undefined, url |-> Undefined, response |-> Undefined,
   deploymentKey |-> Undefined, label |-> Undefined, status |-> Undefined,
   previousDeploymentKey |-> Undefined, previousLabel |-> Undefined,
   clientUniqueId |-> Undefined, toLabel |-> Undefined, fromLabel |-> Undefined]

\* how a call ends: its promise resolves with null, with undefined or with a
\* value, or is rejected, or the method throws before it returns a promise
Pending == [kind |-> "pending", val |-> Undefined]
ResolvedNull == [kind |-> "null", val |-> Null]
ResolvedVoid == [kind |-> "void", val |-> Undefined]
Resolved(v) == [kind |-> "value", val |-> v]
Rejected == [kind |-> "rejected", val |-> Undefined]
Thrown == [kind |-> "throws", val |-> Undefined]

NoPromise == 0

\* the pings of a call: not issued, waiting for its reply, answered or failed
NoPings == [ops |-> "none", metrics |-> "none"]

\* new RedisManager()
Constructor(host, port) ==
  /\ env = [REDIS_HOST |-> host, REDIS_PORT |-> port]
  /\ IF Truthy(host) /\ Truthy(port)
       THEN opsClient = "connecting" /\ metricsClient = "connecting"
       ELSE opsClient = Undefined /\ metricsClient = Undefined
  /\ setupPromise = NoPromise

Init ==
  /\ \E host \in EnvValues, port \in EnvValues : Constructor(host, port)
  /\ selectedDb = OPS_DB
  /\ attempts = <<>>
  /\ store = [d \in {OPS_DB, METRICS_DB} |-> EmptyMap]
  /\ call = [p \in Procs |-> NoCall]
  /\ pc = [p \in Procs |-> "idle"]
  /\ result = [p \in Procs |-> Pending]
  /\ isNewKey = [p \in Procs |-> FALSE]
  /\ awaiting = [p \in Procs |-> 0]
  /\ batch = [p \in Procs |-> <<>>]
  /\ cmds = [p \in Procs |-> <<>>]
  /\ lastWriter = [k \in CacheKeys |-> 0]
  /\ tornRead = FALSE
  /\ pings = [p \in Procs |-> NoPings]

(***************************************************************************)
(* Callers are invoked in the order of their index.                        *)
(***************************************************************************)
CanInvoke(p) == pc[p] = "idle" /\ \A q \in Procs : q < p => pc[q] # "idle"

Cmd(client, name, key, ok) == [client |-> client, name |-> name, key |-> key, ok |-> ok]

\* the outcomes of a store command that was issued: a reply, or an error
Outcomes == {TRUE, FALSE}

(***************************************************************************)
(* _safeCall: the command is issued only if the manager is enabled and the *)
(* handle is ready.                                                        *)
(***************************************************************************)
\* a faulty _safeCall that does not look at the handle's readiness
SafeCallIssuesWhenEnabled(client) == isEnabled /\ client # Undefined

SafeCallIssues(client) == isEnabled /\ client # Undefined /\ Ready(client)

(***************************************************************************)
(* Response cache.                                                         *)
(***************************************************************************)
\* a faulty continuation of hget that parses whatever the reply is
CachedResponseOfUnguarded(serializedResponse) == Resolved(JSONParse(serializedResponse))

\* the continuation of hget: what the caller receives for a reply
CachedResponseOf(serializedResponse) ==
  IF Truthy(serializedResponse)
    THEN (IF JSONParse(serializedResponse) = Throws
            THEN ResolvedNull
            ELSE Resolved(JSONParse(serializedResponse)))
    ELSE ResolvedNull

\* the field getCachedResponse reads
\* a faulty lookup that takes the url for the key and the key for the field
CachedFieldSwapped(expiryKey, url) == DbHGet(store[OPS_DB], url, expiryKey)

CachedField(expiryKey, url) == DbHGet(store[OPS_DB], expiryKey, url)

getCachedResponse(p, expiryKey, url) ==
  /\ CanInvoke(p)
  /\ call' = [call EXCEPT ![p] = [NoCall EXCEPT !.op = "getCachedResponse",
                                     !.expiryKey = expiryKey, !.url = url]]
  /\ pc' = [pc EXCEPT ![p] = "done"]
  /\ IF SafeCallIssues(opsClient)
       THEN \E ok \in Outcomes :
              /\ cmds' = [cmds EXCEPT ![p] = Append(@, Cmd("ops", "hget", expiryKey, ok))]
              /\ result' = [result EXCEPT ![p] =
                   IF ok THEN CachedResponseOf(CachedField(expiryKey, url)) ELSE ResolvedNull]
       ELSE /\ cmds' = cmds
            /\ result' = [result EXCEPT ![p] = ResolvedNull]
  /\ UNCHANGED <<connVars, setupVars, store, isNewKey, awaiting, batch, lastWriter, tornRead, pings>>

\* setCachedResponse up to its first store command: JSON.stringify, then exists
setCachedResponse(p, expiryKey, url, response) ==
  /\ CanInvoke(p)
  /\ call' = [call EXCEPT ![p] = [NoCall EXCEPT !.op = "setCachedResponse",
                                     !.expiryKey = expiryKey, !.url = url,
                                     !.response = response]]
  /\ IF JSONStringify(response) = Throws
       THEN /\ pc' = [pc EXCEPT ![p] = "done"]
            /\ result' = [result EXCEPT ![p] = Thrown]
            /\ UNCHANGED <<cmds, isNewKey>>
       ELSE IF SafeCallIssues(opsClient)
         THEN \E ok \in Outcomes :
                /\ cmds' = [cmds EXCEPT ![p] = Append(@, Cmd("ops", "exists", expiryKey, ok))]
                /\ isNewKey' = [isNewKey EXCEPT ![p] =
                                  ok /\ DbExists(store[OPS_DB], expiryKey) = 0]
                /\ pc' = [pc EXCEPT ![p] = IF ok THEN "exists" ELSE "done"]
                /\ result' = [result EXCEPT ![p] = IF ok THEN Pending ELSE ResolvedVoid]
         ELSE /\ pc' = [pc EXCEPT ![p] = "done"]
              /\ result' = [result EXCEPT ![p] = ResolvedVoid]
              /\ UNCHANGED <<cmds, isNewKey>>
  /\ UNCHANGED <<connVars, setupVars, store, awaiting, batch, lastWriter, tornRead, pings>>

\* the value hset is called with: a null or undefined argument is written as
\* its name by the client library, or refused by it, depending on its version
ArgumentForms(v) == IF v \in {Null, Undefined} THEN {v, Throws} ELSE {v}

\* the continuation of exists: hset
setCachedResponse_hset(p) ==
  /\ pc[p] = "exists"
  /\ IF SafeCallIssues(opsClient)
       THEN \E ok \in Outcomes, value \in ArgumentForms(JSONStringify(call[p].response)) :
              LET applied == ok /\ value # Throws IN
              /\ cmds' = [cmds EXCEPT ![p] = Append(@, Cmd("ops", "hset", call[p].expiryKey, applied))]
              /\ store' = IF applied
                   THEN [store EXCEPT ![OPS_DB] = DbHSet(@, call[p].expiryKey, call[p].url, value)]
                   ELSE store
              /\ lastWriter' = IF applied
                   THEN [lastWriter EXCEPT ![call[p].expiryKey] = p]
                   ELSE lastWriter
              /\ pc' = [pc EXCEPT ![p] = IF applied THEN "hset" ELSE "done"]
              /\ result' = [result EXCEPT ![p] = IF applied THEN Pending ELSE ResolvedVoid]
       ELSE /\ pc' = [pc EXCEPT ![p] = "done"]
            /\ result' = [result EXCEPT ![p] = ResolvedVoid]
            /\ UNCHANGED <<cmds, store, lastWriter>>
  /\ UNCHANGED <<connVars, setupVars, call, isNewKey, awaiting, batch, tornRead, pings>>

\* whether the continuation of hset issues expire
\* a faulty set that issues expire on every write
IssuesExpireAlways(newKey) == TRUE

IssuesExpire(newKey) == newKey

\* the continuation of hset: expire if the key was new, and the call completes
setCachedResponse_expire(p) ==
  /\ pc[p] = "hset"
  /\ pc' = [pc EXCEPT ![p] = "done"]
  /\ result' = [result EXCEPT ![p] = ResolvedVoid]
  /\ IF IssuesExpire(isNewKey[p]) /\ SafeCallIssues(opsClient)
       THEN \E ok \in Outcomes :
              /\ cmds' = [cmds EXCEPT ![p] = Append(@, Cmd("ops", "expire", call[p].expiryKey, ok))]
              /\ store' = IF ok
                   THEN [store EXCEPT ![OPS_DB] = DbExpire(@, call[p].expiryKey, DEFAULT_EXPIRY)]
                   ELSE store
       ELSE UNCHANGED <<cmds, store>>
  /\ UNCHANGED <<connVars, setupVars, call, isNewKey, awaiting, batch, lastWriter, tornRead, pings>>

invalidateCache(p, expiryKey) ==
  /\ CanInvoke(p)
  /\ call' = [call EXCEPT ![p] = [NoCall EXCEPT !.op = "invalidateCache", !.expiryKey = expiryKey]]
  /\ pc' = [pc EXCEPT ![p] = "done"]
  /\ result' = [result EXCEPT ![p] = IF isEnabled THEN ResolvedVoid ELSE ResolvedNull]
  /\ IF isEnabled /\ SafeCallIssues(opsClient)
       THEN \E ok \in Outcomes :
              /\ cmds' = [cmds EXCEPT ![p] = Append(@, Cmd("ops", "del", expiryKey, ok))]
              /\ store' = IF ok THEN [store EXCEPT ![OPS_DB] = DbDel(@, {expiryKey})] ELSE store
              /\ lastWriter' = IF ok THEN [lastWriter EXCEPT ![expiryKey] = p] ELSE lastWriter
       ELSE UNCHANGED <<cmds, store, lastWriter>>
  /\ UNCHANGED <<connVars, setupVars, isNewKey, awaiting, batch, tornRead, pings>>

(***************************************************************************)
(* Metrics setup.                                                          *)
(***************************************************************************)
cacheVars == <<isNewKey, lastWriter>>

\* a call ends at once with its benign default
EndsWith(p, outcome) ==
  /\ pc' = [pc EXCEPT ![p] = "done"]
  /\ result' = [result EXCEPT ![p] = outcome]

\* a faulty ensureMetricsSetup that does not look at the memoized promise
ensureMetricsSetupUnmemoized(p, onReject) ==
  IF ~isEnabled \/ ~Ready(metricsClient)
    THEN EndsWith(p, onReject) /\ UNCHANGED <<setupPromise, attempts, awaiting>>
    ELSE /\ attempts' = Append(attempts, "start")
         /\ setupPromise' = Len(attempts) + 1
         /\ awaiting' = [awaiting EXCEPT ![p] = Len(attempts) + 1]
         /\ pc' = [pc EXCEPT ![p] = "ensure"]
         /\ UNCHANGED result

\* ensureMetricsSetup, called by every metrics method before it returns: the
\* call ends with onReject when the promise it gets is already rejected, and
\* otherwise waits on the memoized attempt, or on a new one
ensureMetricsSetup(p, onReject) ==
  IF ~isEnabled
    THEN EndsWith(p, onReject) /\ UNCHANGED <<setupPromise, attempts, awaiting>>
  ELSE IF setupPromise # NoPromise
    THEN /\ awaiting' = [awaiting EXCEPT ![p] = setupPromise]
         /\ pc' = [pc EXCEPT ![p] = "ensure"]
         /\ UNCHANGED <<result, setupPromise, attempts>>
  ELSE IF ~Ready(metricsClient)
    THEN EndsWith(p, onReject) /\ UNCHANGED <<setupPromise, attempts, awaiting>>
  ELSE /\ attempts' = Append(attempts, "start")
       /\ setupPromise' = Len(attempts) + 1
       /\ awaiting' = [awaiting EXCEPT ![p] = Len(attempts) + 1]
       /\ pc' = [pc EXCEPT ![p] = "ensure"]
       /\ UNCHANGED result

\* a faulty catch handler that leaves the rejected promise memoized
SetupFailedKeepsPromise(i) ==
  /\ attempts' = [attempts EXCEPT ![i] = "rejected"]
  /\ UNCHANGED setupPromise

\* the catch handler of a setup attempt: the memoized promise is cleared and
\* the attempt's promise is rejected
SetupFailed(i) ==
  /\ attempts' = [attempts EXCEPT ![i] = "rejected"]
  /\ setupPromise' = NoPromise

\* a faulty first continuation whose select leaves the connection on the
\* database it was on
SetupSelectNoDb(i) ==
  /\ attempts[i] = "start"
  /\ metricsClient \in {"ready", "ended"}
  /\ \E ok \in Outcomes :
       IF ok /\ Ready(metricsClient)
         THEN /\ attempts' = [attempts EXCEPT ![i] = "selected"]
              /\ UNCHANGED <<setupPromise, selectedDb>>
         ELSE SetupFailed(i) /\ UNCHANGED selectedDb
  /\ UNCHANGED <<connVars, store, call, pc, result, cacheVars, awaiting, batch, cmds, tornRead, pings>>

\* the first continuation of an attempt: select(METRICS_DB).  The command waits
\* in the offline queue while the handle connects and fails when it has ended.
SetupSelect(i) ==
  /\ attempts[i] = "start"
  /\ metricsClient \in {"ready", "ended"}
  /\ \E ok \in Outcomes :
       IF ok /\ Ready(metricsClient)
         THEN /\ selectedDb' = METRICS_DB
              /\ attempts' = [attempts EXCEPT ![i] = "selected"]
              /\ UNCHANGED setupPromise
         ELSE SetupFailed(i) /\ UNCHANGED selectedDb
  /\ UNCHANGED <<connVars, store, call, pc, result, cacheVars, awaiting, batch, cmds, tornRead, pings>>

\* the second continuation: set("health", "health"), and the attempt resolves
SetupSet(i) ==
  /\ attempts[i] = "selected"
  /\ metricsClient \in {"ready", "ended"}
  /\ \E ok \in Outcomes :
       IF ok /\ Ready(metricsClient)
         THEN /\ store' = [store EXCEPT ![selectedDb] = DbSet(@, "health", "health")]
              /\ attempts' = [attempts EXCEPT ![i] = "resolved"]
              /\ UNCHANGED setupPromise
         ELSE SetupFailed(i) /\ UNCHANGED store
  /\ UNCHANGED <<connVars, selectedDb, call, pc, result, cacheVars, awaiting, batch, cmds, tornRead, pings>>

\* a faulty continuation that runs when the promise has settled either way
SetupSettled(p) == pc[p] = "ensure" /\ attempts[awaiting[p]] \in {"resolved", "rejected"}

\* the promise a waiting call holds has resolved, or has been rejected
SetupResolved(p) == pc[p] = "ensure" /\ attempts[awaiting[p]] = "resolved"
SetupRejected(p) == pc[p] = "ensure" /\ attempts[awaiting[p]] = "rejected"

\* the commands of one connection reach the store in the order they were
\* issued: none passes the commands of a batch that is being executed
BatchInFlight == \E q \in Procs : pc[q] = "batch"

\* a faulty wait that has no handler for a rejected setup promise
EnsureRejectedHangs(p) ==
  /\ SetupRejected(p)
  /\ UNCHANGED vars

\* a call whose setup promise was rejected ends in its catch handler
EnsureRejected(p) ==
  /\ SetupRejected(p)
  /\ EndsWith(p, IF call[p].op \in {"getMetricsWithDeploymentKey", "getCurrentActiveLabel"}
                   THEN ResolvedNull ELSE ResolvedVoid)
  /\ UNCHANGED <<connVars, setupVars, store, call, cacheVars, awaiting, batch, cmds, tornRead, pings>>

(***************************************************************************)
(* Metrics aggregator.                                                     *)
(***************************************************************************)
\* the store refuses HINCRBY on a field that does not hold an integer
IncrementRefused(db, key, field) ==
  DbHGet(db, key, field) # Null /\ ~IsDec(DbHGet(db, key, field))

\* one hash command of the metrics connection, as the store executes it
Execute(db, c) ==
  CASE c.name = "hincrby" -> DbHIncrBy(db, c.key, c.field, c.arg)
    [] c.name = "hset" -> DbHSet(db, c.key, c.field, c.arg)
    [] OTHER -> db

Refused(db, c) == c.name = "hincrby" /\ IncrementRefused(db, c.key, c.field)

HashCmd(name, key, field, arg) == [name |-> name, key |-> key, field |-> field, arg |-> arg]

incrementLabelStatusCount(p, deploymentKey, label, status) ==
  /\ CanInvoke(p)
  /\ call' = [call EXCEPT ![p] = [NoCall EXCEPT !.op = "incrementLabelStatusCount",
                                     !.deploymentKey = deploymentKey, !.label = label,
                                     !.status = status]]
  /\ ensureMetricsSetup(p, ResolvedVoid)
  /\ UNCHANGED <<connVars, selectedDb, store, cacheVars, batch, cmds, tornRead, pings>>

\* the continuation of ensureMetricsSetup: hincrby hash field 1
incrementLabelStatusCount_hincrby(p) ==
  /\ SetupResolved(p) /\ ~BatchInFlight
  /\ call[p].op = "incrementLabelStatusCount"
  /\ EndsWith(p, ResolvedVoid)
  /\ IF SafeCallIssues(metricsClient)
       THEN \E ok \in Outcomes,
               field \in ArgumentForms(getLabelStatusField(call[p].label, call[p].status)) :
              LET c == HashCmd("hincrby", getDeploymentKeyLabelsHash(call[p].deploymentKey), field, 1)
                  applied == ok /\ field # Throws /\ ~Refused(store[selectedDb], c)
              IN /\ cmds' = [cmds EXCEPT ![p] = Append(@, Cmd("metrics", "hincrby", c.key, applied))]
                 /\ store' = IF applied
                      THEN [store EXCEPT ![selectedDb] = Execute(@, c)]
                      ELSE store
       ELSE UNCHANGED <<cmds, store>>
  /\ UNCHANGED <<connVars, setupVars, call, cacheVars, awaiting, batch, tornRead, pings>>

\* what getMetricsWithDeploymentKey makes of the reply of hgetall
MetricsOf(db, key) ==
  IF IsHash(db, key)
    THEN Resolved([f \in DOMAIN DbHGetAll(db, key) |-> ToNumberIfNumeric(DbHGetAll(db, key)[f])])
    ELSE ResolvedNull

getMetricsWithDeploymentKey(p, deploymentKey) ==
  /\ CanInvoke(p)
  /\ call' = [call EXCEPT ![p] = [NoCall EXCEPT !.op = "getMetricsWithDeploymentKey",
                                     !.deploymentKey = deploymentKey]]
  /\ ensureMetricsSetup(p, ResolvedNull)
  /\ UNCHANGED <<connVars, selectedDb, store, cacheVars, batch, cmds, tornRead, pings>>

\* the continuation of ensureMetricsSetup: hgetall hash
getMetricsWithDeploymentKey_hgetall(p) ==
  /\ SetupResolved(p) /\ ~BatchInFlight
  /\ call[p].op = "getMetricsWithDeploymentKey"
  /\ pc' = [pc EXCEPT ![p] = "done"]
  /\ IF SafeCallIssues(metricsClient)
       THEN \E ok \in Outcomes :
              /\ cmds' = [cmds EXCEPT ![p] = Append(@,
                   Cmd("metrics", "hgetall", getDeploymentKeyLabelsHash(call[p].deploymentKey), ok))]
              /\ result' = [result EXCEPT ![p] =
                   IF ok THEN MetricsOf(store[selectedDb], getDeploymentKeyLabelsHash(call[p].deploymentKey))
                         ELSE ResolvedNull]
       ELSE /\ cmds' = cmds
            /\ result' = [result EXCEPT ![p] = ResolvedNull]
  /\ UNCHANGED <<connVars, setupVars, store, call, cacheVars, awaiting, batch, tornRead, pings>>

recordUpdate(p, currentDeploymentKey, currentLabel, previousDeploymentKey, previousLabel) ==
  /\ CanInvoke(p)
  /\ call' = [call EXCEPT ![p] = [NoCall EXCEPT !.op = "recordUpdate",
                                     !.deploymentKey = currentDeploymentKey,
                                     !.label = currentLabel,
                                     !.previousDeploymentKey = previousDeploymentKey,
                                     !.previousLabel = previousLabel]]
  /\ ensureMetricsSetup(p, ResolvedVoid)
  /\ UNCHANGED <<connVars, selectedDb, store, cacheVars, batch, cmds, tornRead, pings>>

\* the commands recordUpdate queues on its batch client
RecordUpdateBatch(c) ==
  <<HashCmd("hincrby", getDeploymentKeyLabelsHash(c.deploymentKey),
            getLabelActiveCountField(c.label), 1),
    HashCmd("hincrby", getDeploymentKeyLabelsHash(c.deploymentKey),
            getLabelStatusField(c.label, DEPLOYMENT_SUCCEEDED), 1)>>
  \o (IF Truthy(c.previousDeploymentKey) /\ Truthy(c.previousLabel)
        THEN <<HashCmd("hincrby", getDeploymentKeyLabelsHash(c.previousDeploymentKey),
                       getLabelActiveCountField(c.previousLabel), 0 - 1)>>
        ELSE <<>>)

\* the continuation of ensureMetricsSetup: the batch is built and submitted
recordUpdate_execBatch(p) ==
  /\ SetupResolved(p) /\ ~BatchInFlight
  /\ call[p].op = "recordUpdate"
  /\ IF SafeCallIssues(metricsClient)
       THEN /\ batch' = [batch EXCEPT ![p] = RecordUpdateBatch(call[p])]
            /\ pc' = [pc EXCEPT ![p] = "batch"]
            /\ UNCHANGED result
       ELSE EndsWith(p, ResolvedVoid) /\ UNCHANGED batch
  /\ UNCHANGED <<connVars, setupVars, store, call, cacheVars, awaiting, cmds, tornRead, pings>>

\* the store executes the next command of a submitted batch; the batch is a
\* pipeline, not a transaction: each command succeeds or fails on its own, and
\* the call completes when the last reply is in
ExecBatchStep(p) ==
  /\ pc[p] = "batch"
  /\ LET i == Len(cmds[p]) + 1 IN
     \E ok \in Outcomes, field \in ArgumentForms(batch[p][i].field) :
       LET c == [batch[p][i] EXCEPT !.field = field]
           applied == ok /\ field # Throws /\ ~Refused(store[selectedDb], c)
       IN /\ cmds' = [cmds EXCEPT ![p] = Append(@, Cmd("metrics", c.name, c.key, applied))]
          /\ store' = IF applied THEN [store EXCEPT ![selectedDb] = Execute(@, c)] ELSE store
          /\ IF i = Len(batch[p])
               THEN EndsWith(p, ResolvedVoid)
               ELSE UNCHANGED <<pc, result>>
  /\ UNCHANGED <<connVars, setupVars, call, cacheVars, awaiting, batch, tornRead, pings>>

(***************************************************************************)
(* Another client of the same store reads a label-counters hash.  Its      *)
(* connection is its own, so the read can fall between two commands of a   *)
(* batch; the read is torn when it shows a change of a batch whose last    *)
(* command the store has not executed yet.  tornRead says that some read   *)
(* so far was torn.                                                        *)
(***************************************************************************)
TornAt(key) ==
  \E p \in Procs :
    /\ pc[p] = "batch"
    /\ \E i \in 1..Len(cmds[p]) : cmds[p][i].ok /\ cmds[p][i].key = key

OtherClientRead(deploymentKey) ==
  /\ tornRead' = (tornRead \/ TornAt(getDeploymentKeyLabelsHash(deploymentKey)))
  /\ UNCHANGED <<connVars, setupVars, store, call, pc, result, cacheVars, awaiting, batch, cmds, pings>>

clearMetricsForDeploymentKey(p, deploymentKey) ==
  /\ CanInvoke(p)
  /\ call' = [call EXCEPT ![p] = [NoCall EXCEPT !.op = "clearMetricsForDeploymentKey",
                                     !.deploymentKey = deploymentKey]]
  /\ ensureMetricsSetup(p, ResolvedVoid)
  /\ UNCHANGED <<connVars, selectedDb, store, cacheVars, batch, cmds, tornRead, pings>>

\* a faulty clear that leaves the client-labels hash
ClearedKeysLabelsOnly(deploymentKey) == {getDeploymentKeyLabelsHash(deploymentKey)}

\* the keys clearMetricsForDeploymentKey passes to del
ClearedKeys(deploymentKey) ==
  {getDeploymentKeyLabelsHash(deploymentKey), getDeploymentKeyClientsHash(deploymentKey)}

\* the continuation of ensureMetricsSetup: del labelsHash clientsHash
clearMetricsForDeploymentKey_del(p) ==
  /\ SetupResolved(p) /\ ~BatchInFlight
  /\ call[p].op = "clearMetricsForDeploymentKey"
  /\ EndsWith(p, ResolvedVoid)
  /\ IF SafeCallIssues(metricsClient)
       THEN \E ok \in Outcomes :
              /\ cmds' = [cmds EXCEPT ![p] = Append(@,
                   Cmd("metrics", "del", getDeploymentKeyLabelsHash(call[p].deploymentKey), ok))]
              /\ store' = IF ok
                   THEN [store EXCEPT ![selectedDb] = DbDel(@, ClearedKeys(call[p].deploymentKey))]
                   ELSE store
       ELSE UNCHANGED <<cmds, store>>
  /\ UNCHANGED <<connVars, setupVars, call, cacheVars, awaiting, batch, tornRead, pings>>

removeDeploymentKeyClientActiveLabel(p, deploymentKey, clientUniqueId) ==
  /\ CanInvoke(p)
  /\ call' = [call EXCEPT ![p] = [NoCall EXCEPT !.op = "removeDeploymentKeyClientActiveLabel",
                                     !.deploymentKey = deploymentKey,
                                     !.clientUniqueId = clientUniqueId]]
  /\ ensureMetricsSetup(p, ResolvedVoid)
  /\ UNCHANGED <<connVars, selectedDb, store, cacheVars, batch, cmds, tornRead, pings>>

\* the continuation of ensureMetricsSetup: hdel clientsHash clientUniqueId
removeDeploymentKeyClientActiveLabel_hdel(p) ==
  /\ SetupResolved(p) /\ ~BatchInFlight
  /\ call[p].op = "removeDeploymentKeyClientActiveLabel"
  /\ EndsWith(p, ResolvedVoid)
  /\ IF SafeCallIssues(metricsClient)
       THEN \E ok \in Outcomes :
              /\ cmds' = [cmds EXCEPT ![p] = Append(@,
                   Cmd("metrics", "hdel", getDeploymentKeyClientsHash(call[p].deploymentKey), ok))]
              /\ store' = IF ok
                   THEN [store EXCEPT ![selectedDb] =
                           DbHDel(@, getDeploymentKeyClientsHash(call[p].deploymentKey),
                                  call[p].clientUniqueId)]
                   ELSE store
       ELSE UNCHANGED <<cmds, store>>
  /\ UNCHANGED <<connVars, setupVars, call, cacheVars, awaiting, batch, tornRead, pings>>

getCurrentActiveLabel(p, deploymentKey, clientUniqueId) ==
  /\ CanInvoke(p)
  /\ call' = [call EXCEPT ![p] = [NoCall EXCEPT !.op = "getCurrentActiveLabel",
                                     !.deploymentKey = deploymentKey,
                                     !.clientUniqueId = clientUniqueId]]
  /\ ensureMetricsSetup(p, ResolvedNull)
  /\ UNCHANGED <<connVars, selectedDb, store, cacheVars, batch, cmds, tornRead, pings>>

\* what getCurrentActiveLabel resolves with: the reply of hget, as it is
ActiveLabelOf(db, deploymentKey, clientUniqueId) ==
  LET reply == DbHGet(db, getDeploymentKeyClientsHash(deploymentKey), clientUniqueId)
  IN IF reply = Null THEN ResolvedNull ELSE Resolved(reply)

\* the continuation of ensureMetricsSetup: hget clientsHash clientUniqueId
getCurrentActiveLabel_hget(p) ==
  /\ SetupResolved(p) /\ ~BatchInFlight
  /\ call[p].op = "getCurrentActiveLabel"
  /\ pc' = [pc EXCEPT ![p] = "done"]
  /\ IF SafeCallIssues(metricsClient)
       THEN \E ok \in Outcomes :
              /\ cmds' = [cmds EXCEPT ![p] = Append(@,
                   Cmd("metrics", "hget", getDeploymentKeyClientsHash(call[p].deploymentKey), ok))]
              /\ result' = [result EXCEPT ![p] =
                   IF ok THEN ActiveLabelOf(store[selectedDb], call[p].deploymentKey,
                                            call[p].clientUniqueId)
                         ELSE ResolvedNull]
       ELSE /\ cmds' = cmds
            /\ result' = [result EXCEPT ![p] = ResolvedNull]
  /\ UNCHANGED <<connVars, setupVars, store, call, cacheVars, awaiting, batch, tornRead, pings>>

updateActiveAppForClient(p, deploymentKey, clientUniqueId, toLabel, fromLabel) ==
  /\ CanInvoke(p)
  /\ call' = [call EXCEPT ![p] = [NoCall EXCEPT !.op = "updateActiveAppForClient",
                                     !.deploymentKey = deploymentKey,
                                     !.clientUniqueId = clientUniqueId,
                                     !.toLabel = toLabel, !.fromLabel = fromLabel]]
  /\ ensureMetricsSetup(p, ResolvedVoid)
  /\ UNCHANGED <<connVars, selectedDb, store, cacheVars, batch, cmds, tornRead, pings>>

\* the commands updateActiveAppForClient queues on its batch client
UpdateActiveAppBatch(c) ==
  <<HashCmd("hset", getDeploymentKeyClientsHash(c.deploymentKey), c.clientUniqueId, c.toLabel),
    HashCmd("hincrby", getDeploymentKeyLabelsHash(c.deploymentKey),
            getLabelActiveCountField(c.toLabel), 1)>>
  \o (IF Truthy(c.fromLabel)
        THEN <<HashCmd("hincrby", getDeploymentKeyLabelsHash(c.deploymentKey),
                       getLabelActiveCountField(c.fromLabel), 0 - 1)>>
        ELSE <<>>)

\* the continuation of ensureMetricsSetup: the batch is built and submitted
updateActiveAppForClient_execBatch(p) ==
  /\ SetupResolved(p) /\ ~BatchInFlight
  /\ call[p].op = "updateActiveAppForClient"
  /\ IF SafeCallIssues(metricsClient)
       THEN /\ batch' = [batch EXCEPT ![p] = UpdateActiveAppBatch(call[p])]
            /\ pc' = [pc EXCEPT ![p] = "batch"]
            /\ UNCHANGED result
       ELSE EndsWith(p, ResolvedVoid) /\ UNCHANGED batch
  /\ UNCHANGED <<connVars, setupVars, store, call, cacheVars, awaiting, cmds, tornRead, pings>>

(***************************************************************************)
(* checkHealth: both pings are issued on the promisified clients, not      *)
(* through _safeCall, so a ping on a handle that is connecting waits in    *)
(* the offline queue; q.all fails with the first ping that fails and       *)
(* succeeds when both have been answered.                                  *)
(***************************************************************************)
checkHealth(p) ==
  /\ CanInvoke(p)
  /\ call' = [call EXCEPT ![p] = [NoCall EXCEPT !.op = "checkHealth"]]
  /\ IF ~isEnabled
       THEN EndsWith(p, Rejected) /\ UNCHANGED pings
       ELSE /\ pings' = [pings EXCEPT ![p] = [ops |-> "pending", metrics |-> "pending"]]
            /\ pc' = [pc EXCEPT ![p] = "ping"]
            /\ UNCHANGED result
  /\ UNCHANGED <<connVars, setupVars, store, isNewKey, awaiting, batch, cmds, lastWriter, tornRead>>

\* a faulty q.all that swallows the failure of a ping
HealthOutcomeSwallowed(p, which, state) ==
  LET other == IF which = "ops" THEN pings[p].metrics ELSE pings[p].ops
  IN IF state = "failed" \/ other = "answered" THEN EndsWith(p, ResolvedVoid)
     ELSE UNCHANGED <<pc, result>>

\* how q.all settles once the named ping has the given state
HealthOutcome(p, which, state) ==
  LET other == IF which = "ops" THEN pings[p].metrics ELSE pings[p].ops
  IN IF state = "failed" THEN EndsWith(p, Rejected)
     ELSE IF other = "answered" THEN EndsWith(p, ResolvedVoid)
     ELSE UNCHANGED <<pc, result>>

\* the reply of a ping, or its error
PingReply(p, which, client) ==
  /\ pc[p] = "ping"
  /\ pings[p][which] = "pending"
  /\ client \in {"ready", "ended"}
  /\ \E ok \in Outcomes :
       LET state == IF ok /\ Ready(client) THEN "answered" ELSE "failed" IN
       /\ pings' = [pings EXCEPT ![p][which] = state]
       /\ HealthOutcome(p, which, state)
  /\ UNCHANGED <<connVars, setupVars, store, call, isNewKey, awaiting, batch, cmds,
                 lastWriter, tornRead>>

checkHealth_opsPing(p) == PingReply(p, "ops", opsClient)

checkHealth_metricsPing(p) == PingReply(p, "metrics", metricsClient)

(***************************************************************************)
(* Another client of the same store writes a field of a hash: the store is *)
(* shared, and what a read of this manager finds need not be its own.      *)
(***************************************************************************)
OtherClientHSet(db, key, field, value) ==
  /\ store' = [store EXCEPT ![db] = DbHSet(@, key, field, value)]
  /\ lastWriter' = [k \in CacheKeys |-> IF db = OPS_DB /\ k = key THEN 0 ELSE lastWriter[k]]
  /\ UNCHANGED <<connVars, setupVars, call, pc, result, isNewKey, awaiting, batch, cmds,
                 tornRead, pings>>

(***************************************************************************)
(* The environment: the connections and the clock.                         *)
(***************************************************************************)
OpsConnect == opsClient = "connecting" /\ opsClient' = "ready"
OpsDrop == opsClient = "ready" /\ opsClient' = "connecting"
OpsEnd == opsClient = "connecting" /\ opsClient' = "ended"

OpsHandle ==
  /\ OpsConnect \/ OpsDrop \/ OpsEnd
  /\ UNCHANGED <<env, metricsClient, setupVars, store, call, pc, result, isNewKey,
                 awaiting, batch, cmds, lastWriter, tornRead, pings>>

\* TickStep seconds pass and the store removes the keys whose time to live is over
Tick ==
  /\ \E d \in DOMAIN store : \E k \in DOMAIN store[d] : store[d][k].ttl # NoExpiry
  /\ store' = [d \in DOMAIN store |-> DbAfter(store[d], TickStep)]
  /\ lastWriter' = [k \in CacheKeys |->
                      IF k \in Expiring(store[OPS_DB], TickStep) THEN 0 ELSE lastWriter[k]]
  /\ UNCHANGED <<connVars, setupVars, call, pc, result, isNewKey, awaiting, batch, cmds, tornRead, pings>>

MetricsConnect == metricsClient = "connecting" /\ metricsClient' = "ready"
MetricsDrop == metricsClient = "ready" /\ metricsClient' = "connecting"
MetricsEnd == metricsClient = "connecting" /\ metricsClient' = "ended"

MetricsHandle ==
  /\ MetricsConnect \/ MetricsDrop \/ MetricsEnd
  /\ UNCHANGED <<env, opsClient, setupVars, store, call, pc, result, isNewKey,
                 awaiting, batch, cmds, lastWriter, tornRead, pings>>

CacheNext ==
  \/ \E p \in Procs, k \in ExpiryKeys, u \in Urls : getCachedResponse(p, k, u)
  \/ \E p \in Procs, k \in ExpiryKeys, u \in Urls, r \in Responses : setCachedResponse(p, k, u, r)
  \/ \E p \in Procs : setCachedResponse_hset(p)
  \/ \E p \in Procs : setCachedResponse_expire(p)
  \/ \E p \in Procs, k \in ExpiryKeys : invalidateCache(p, k)
  \/ OpsHandle
  \/ Tick

SetupNext ==
  \/ \E i \in 1..Len(attempts) : SetupSelect(i)
  \/ \E i \in 1..Len(attempts) : SetupSet(i)
  \/ \E p \in Procs : EnsureRejected(p)
  \/ MetricsHandle

GetMetricsNext ==
  \/ \E p \in Procs, k \in DeploymentKeys : getMetricsWithDeploymentKey(p, k)
  \/ \E p \in Procs : getMetricsWithDeploymentKey_hgetall(p)

IncrementNext ==
  \/ \E p \in Procs, k \in DeploymentKeys, l \in IncLabels, st \in StatusInputs :
       incrementLabelStatusCount(p, k, l, st)
  \/ \E p \in Procs : incrementLabelStatusCount_hincrby(p)
  \/ GetMetricsNext
  \/ SetupNext

UpdateNext ==
  \/ \E p \in Procs, k \in CurrentKeys, l \in LabelInputs,
        pk \in PreviousKeys, pl \in PreviousLabels : recordUpdate(p, k, l, pk, pl)
  \/ \E p \in Procs : recordUpdate_execBatch(p)
  \/ \E p \in Procs : ExecBatchStep(p)
  \/ \E k \in DeploymentKeys : OtherClientRead(k)
  \/ GetMetricsNext
  \/ SetupNext

BatchNext ==
  \/ \E p \in Procs : updateActiveAppForClient_execBatch(p)
  \/ \E p \in Procs : ExecBatchStep(p)

ClearNext ==
  \/ \E p \in Procs, k \in DeploymentKeys : clearMetricsForDeploymentKey(p, k)
  \/ \E p \in Procs : clearMetricsForDeploymentKey_del(p)
  \/ \E p \in Procs, k \in DeploymentKeys : updateActiveAppForClient(p, k, "c1", "v1", Undefined)
  \/ BatchNext
  \/ SetupNext

LegacyNext ==
  \/ \E p \in Procs, k \in CurrentKeys, c \in ClientIds, to \in ToLabels, from \in FromLabels :
       updateActiveAppForClient(p, k, c, to, from)
  \/ \E p \in Procs, k \in CurrentKeys, c \in ClientIds : getCurrentActiveLabel(p, k, c)
  \/ \E p \in Procs : getCurrentActiveLabel_hget(p)
  \/ BatchNext
  \/ SetupNext

RemoveNext ==
  \/ \E p \in Procs, k \in CurrentKeys, c \in ClientIds :
       removeDeploymentKeyClientActiveLabel(p, k, c)
  \/ \E p \in Procs : removeDeploymentKeyClientActiveLabel_hdel(p)

ReadNext ==
  \/ \E k \in CurrentKeys, f \in StoredFields, v \in StoredTexts :
       OtherClientHSet(METRICS_DB, getDeploymentKeyLabelsHash(k), f, v)
  \/ GetMetricsNext
  \/ SetupNext

GetNext ==
  \/ \E p \in Procs, k \in ExpiryKeys, u \in Urls : getCachedResponse(p, k, u)
  \/ \E k \in ExpiryKeys, u \in Urls, t \in CachedTexts : OtherClientHSet(OPS_DB, k, u, t)
  \/ OpsHandle

HealthNext ==
  \/ \E p \in Procs : checkHealth(p)
  \/ \E p \in Procs : checkHealth_opsPing(p)
  \/ \E p \in Procs : checkHealth_metricsPing(p)
  \/ OpsHandle
  \/ MetricsHandle

CountersNext ==
  \/ \E p \in Procs, pk \in {Undefined, "dep1"} : recordUpdate(p, "dep1", "v2", pk, "v1")
  \/ \E p \in Procs : recordUpdate_execBatch(p)
  \/ \E p \in Procs : updateActiveAppForClient(p, "dep1", "c1", "v1", "v2")
  \/ \E p \in Procs : clearMetricsForDeploymentKey(p, "dep1")
  \/ \E p \in Procs : clearMetricsForDeploymentKey_del(p)
  \/ BatchNext
  \/ SetupNext

DataNext ==
  \/ \E p \in Procs : incrementLabelStatusCount(p, "dep1", "v1", DOWNLOADED)
  \/ \E p \in Procs : incrementLabelStatusCount_hincrby(p)
  \/ \E p \in Procs : getMetricsWithDeploymentKey(p, "dep1")
  \/ \E p \in Procs : getMetricsWithDeploymentKey_hgetall(p)
  \/ \E p \in Procs : getCurrentActiveLabel(p, "dep1", "c1")
  \/ \E p \in Procs : getCurrentActiveLabel_hget(p)
  \/ \E p \in Procs : clearMetricsForDeploymentKey(p, "dep1")
  \/ \E p \in Procs : clearMetricsForDeploymentKey_del(p)
  \/ \E p \in Procs : updateActiveAppForClient(p, "dep1", "c1", "v1", Undefined)
  \/ BatchNext
  \/ RemoveNext
  \/ SetupNext

DisjointNext ==
  \/ \E p \in Procs : setCachedResponse(p, CollidingKey, CollidingUrl, ROk)
  \/ \E p \in Procs : setCachedResponse_hset(p)
  \/ \E p \in Procs : setCachedResponse_expire(p)
  \/ \E p \in Procs : getCachedResponse(p, CollidingKey, CollidingUrl)
  \/ \E p \in Procs : invalidateCache(p, CollidingKey)
  \/ \E p \in Procs : incrementLabelStatusCount(p, "dep1", "v1", DOWNLOADED)
  \/ \E p \in Procs : incrementLabelStatusCount_hincrby(p)
  \/ \E p \in Procs : clearMetricsForDeploymentKey(p, "dep1")
  \/ \E p \in Procs : clearMetricsForDeploymentKey_del(p)
  \/ OpsHandle
  \/ SetupNext

LiveNext ==
  \/ \E p \in Procs : getCachedResponse(p, "v1", "/updateCheck")
  \/ \E p \in Procs : setCachedResponse(p, "v1", "/updateCheck", ROk)
  \/ \E p \in Procs : setCachedResponse_hset(p)
  \/ \E p \in Procs : setCachedResponse_expire(p)
  \/ \E p \in Procs : incrementLabelStatusCount(p, "dep1", "v1", DOWNLOADED)
  \/ \E p \in Procs : incrementLabelStatusCount_hincrby(p)
  \/ OpsHandle
  \/ SetupNext

Next ==
  \/ CacheNext \/ IncrementNext \/ UpdateNext
  \/ ClearNext \/ LegacyNext \/ RemoveNext \/ ReadNext \/ GetNext \/ HealthNext

\* the whole manager
Spec == Init /\ [][Next]_vars

\* the response cache alone
SpecCache == Init /\ [][CacheNext]_vars

\* the status counters alone
SpecIncrement == Init /\ [][IncrementNext]_vars

\* the status counters and both handles
SpecHandles == Init /\ [][IncrementNext \/ OpsHandle]_vars

\* recordUpdate alone
SpecUpdate == Init /\ [][UpdateNext]_vars

\* clearMetricsForDeploymentKey, with the legacy update that fills both hashes
SpecClear == Init /\ [][ClearNext]_vars

\* the legacy client operations
SpecLegacy == Init /\ [][LegacyNext]_vars

\* getMetricsWithDeploymentKey on a hash other clients write too
SpecRead == Init /\ [][ReadNext]_vars

\* getCachedResponse on a hash other clients write too
SpecGet == Init /\ [][GetNext]_vars

\* checkHealth and both handles
SpecHealth == Init /\ [][HealthNext]_vars

\* every metrics method that issues a data command, and the setup
SpecData == Init /\ [][DataNext]_vars

\* the cache and the metrics under one key name
SpecDisjoint == Init /\ [][DisjointNext]_vars

\* a connection attempt of the metrics handle ends: the handle becomes ready,
\* or the library gives up after max_attempts
MetricsSettles == metricsClient = "connecting" /\ MetricsHandle

\* Every continuation of a call runs once the promise it waits on has
\* settled, and the command it issues is answered.  A command of the setup
\* that waits in the offline queue is sent whenever the handle becomes ready
\* and fails when the handle has ended, and a handle does not stay connecting
\* for ever.
LiveFairness ==
  /\ \A p \in Procs :
       /\ WF_vars(setCachedResponse_hset(p))
       /\ WF_vars(setCachedResponse_expire(p))
       /\ WF_vars(incrementLabelStatusCount_hincrby(p))
       /\ WF_vars(EnsureRejected(p))
  /\ SF_vars(\E i \in 1..Len(attempts) : SetupSelect(i))
  /\ SF_vars(\E i \in 1..Len(attempts) : SetupSet(i))
  /\ WF_vars(MetricsSettles)

\* cache and metrics calls whose commands are all answered
SpecLive == Init /\ [][LiveNext]_vars /\ LiveFairness

\* the Active counters of one deployment key: transitions and clear
SpecCounters == Init /\ [][CountersNext]_vars

(***************************************************************************)
(* Properties.                                                             *)
(***************************************************************************)
Done(p) == pc[p] = "done"

\* the call of p issued the named command and the store executed it
Executed(p, name) == \E i \in 1..Len(cmds[p]) : cmds[p][i].name = name /\ cmds[p][i].ok

IsSet(p) == call[p].op = "setCachedResponse"

\* C1: no public cache or metrics method ever ends with an error for its
\* caller: its promise is never rejected and the method never throws.
\* (JSON.stringify runs in setCachedResponse before any promise exists, so a
\* response it cannot serialize makes the method throw.)
C1_NeverFailsToCaller ==
  \A p \in Procs : result[p].kind \notin {"throws", "rejected"}

\* C2: while the manager is disabled every completed call has ended with its
\* benign default (null for a read, no value for a write) and no store
\* command, the setup's select and set included, has been issued.
C2_DisabledIsBenign ==
  ~isEnabled =>
    /\ attempts = <<>>
    /\ \A p \in Procs :
         /\ cmds[p] = <<>>
         /\ Done(p) => result[p].kind \in {"null", "void"}

\* The part of C2 the code keeps: a disabled manager issues no store command.
DisabledIssuesNothing ==
  ~isEnabled => attempts = <<>> /\ \A p \in Procs : cmds[p] = <<>>

\* C3: isEnabled holds exactly when host and port were both configured,
\* whatever the state of the two handles.
C3_EnabledIffConfigured ==
  isEnabled <=> (Truthy(env.REDIS_HOST) /\ Truthy(env.REDIS_PORT))

\* C3 witness: the manager is enabled while one handle has ended and the
\* other is ready.
C3_Witness ==
  isEnabled /\ opsClient = "ended" /\ metricsClient = "ready"

\* the url was never written under the key by any call
NeverSet(expiryKey, url) ==
  \A q \in Procs :
    ~(IsSet(q) /\ call[q].expiryKey = expiryKey /\ call[q].url = url /\ Executed(q, "hset"))

\* p is a completed set whose hset the store executed, and no command has
\* written its key since (no other set, no invalidate, no expiry)
FreshSet(p) ==
  /\ IsSet(p) /\ Done(p) /\ Executed(p, "hset")
  /\ lastWriter[call[p].expiryKey] = p

\* what a get of (expiryKey, url) issued now on a ready handle resolves with
GetNow(expiryKey, url) == CachedResponseOf(CachedField(expiryKey, url))

\* C4 as claimed: after a completed set(expiryKey, url, response), with no
\* other write of the key in between and before the key expires, a get of
\* (expiryKey, url) returns a value equal to response, for every response;
\* and a get of a url never set under the key returns none.
C4_SetThenGetAnyResponse ==
  /\ \A p \in Procs :
       FreshSet(p) =>
         GetNow(call[p].expiryKey, call[p].url) = Resolved(call[p].response)
  /\ \A k \in ExpiryKeys, u \in Urls :
       NeverSet(k, u) => GetNow(k, u).kind = "null"

\* the values JSON represents exactly: objects, arrays, strings, finite
\* numbers, booleans and null, without cycles
JSONValues == {ROk, RNullBody}

\* C4 amended: the same, for every response that JSON represents exactly.
C4_SetThenGet ==
  /\ \A p \in Procs :
       (FreshSet(p) /\ call[p].response \in JSONValues) =>
         GetNow(call[p].expiryKey, call[p].url) = Resolved(call[p].response)
  /\ \A k \in ExpiryKeys, u \in Urls :
       NeverSet(k, u) => GetNow(k, u).kind = "null"

\* C4 witness: a completed set of a representable response that overwrote the
\* different payload of an earlier set under the same url, while the other url
\* of the key was never set.
C4_Witness ==
  \E p \in Procs, q \in Procs :
    /\ FreshSet(p) /\ call[p].response = ROk
    /\ IsSet(q) /\ Done(q) /\ Executed(q, "hset")
    /\ call[q].expiryKey = call[p].expiryKey /\ call[q].url = call[p].url
    /\ call[q].response = RNaN
    /\ \E u \in Urls : NeverSet(call[p].expiryKey, u)

\* a set of the key is between its exists and its completion
SetInProgress(expiryKey) ==
  \E p \in Procs : IsSet(p) /\ pc[p] \in {"exists", "hset"} /\ call[p].expiryKey = expiryKey

\* C5: once the set calls that touched a cache hash have completed, the hash
\* has an expiry (so it is gone, and get returns none, when the TTL has
\* elapsed).
C5_WrittenHashExpires ==
  \A k \in ExpiryKeys :
    (k \in DOMAIN store[OPS_DB] /\ ~SetInProgress(k)) => DbTTL(store[OPS_DB], k) # NoExpiry

\* C6: a set that found the hash of its key existing never issues expire and
\* none of its steps changes the time the key has left to live; a set that
\* found the key absent and whose expire succeeds leaves the key, if it still
\* exists, with the default expiry.
C6_TtlNeverRefreshed ==
  [][\A p \in Procs :
       (IsSet(p) /\ pc[p] \in {"exists", "hset"} /\ pc'[p] # pc[p]) =>
         IF ~isNewKey[p]
           THEN /\ DbTTL(store'[OPS_DB], call[p].expiryKey) = DbTTL(store[OPS_DB], call[p].expiryKey)
                /\ \A i \in 1..Len(cmds'[p]) : cmds'[p][i].name # "expire"
           ELSE (pc[p] = "hset" /\ Len(cmds'[p]) = 3 /\ cmds'[p][3].ok
                 /\ call[p].expiryKey \in DOMAIN store'[OPS_DB]) =>
                  DbTTL(store'[OPS_DB], call[p].expiryKey) = DEFAULT_EXPIRY]_vars

\* C6 witness: a set completed on a key whose hash existed and had already
\* used up part of its time to live, which it still has.
C6_Witness ==
  \E p \in Procs :
    /\ IsSet(p) /\ Done(p) /\ Executed(p, "hset") /\ ~isNewKey[p]
    /\ DbTTL(store[OPS_DB], call[p].expiryKey) # NoExpiry
    /\ DbTTL(store[OPS_DB], call[p].expiryKey) < DEFAULT_EXPIRY

IsIncrement(p) == call[p].op = "incrementLabelStatusCount"

\* the completed increments of (deploymentKey, label, status) that reached the store
AppliedIncrements(deploymentKey, label, status) ==
  {p \in Procs :
     /\ IsIncrement(p) /\ Done(p) /\ Executed(p, "hincrby")
     /\ call[p].deploymentKey = deploymentKey
     /\ call[p].label = label /\ call[p].status = status}

\* C7: for a recognized status, after n completed incrementLabelStatusCount(k,
\* l, s) calls that reached the store (issued one after the other or
\* concurrently), with the field absent before, field "l:s" of hash
\* deploymentKeyLabels:k in the metrics database holds exactly n, and
\* getMetricsWithDeploymentKey(k) returns n for it; with n = 0 the field is
\* absent.  A completed getMetricsWithDeploymentKey never reports more.
C7_IncrementsCounted ==
  \A k \in DeploymentKeys, l \in IncLabels, st \in {DEPLOYMENT_SUCCEEDED, DEPLOYMENT_FAILED, DOWNLOADED} :
    LET n == Cardinality(AppliedIncrements(k, l, st))
        hash == "deploymentKeyLabels:" \o k
        field == l \o ":" \o st
        view == MetricsOf(store[METRICS_DB], hash)
    IN /\ DbHGet(store[METRICS_DB], hash, field) = (IF n = 0 THEN Null ELSE DecStr(n))
       /\ n > 0 => (view.kind = "value" /\ field \in DOMAIN view.val /\ view.val[field] = n)
       /\ DbHGet(store[OPS_DB], hash, field) = Null
       /\ \A p \in Procs :
            (/\ call[p].op = "getMetricsWithDeploymentKey" /\ Done(p)
             /\ call[p].deploymentKey = k /\ result[p].kind = "value"
             /\ field \in DOMAIN result[p].val) => result[p].val[field] \in 1..n

\* the completed increments of (deploymentKey, label, status) whose hincrby
\* was issued: _safeCall found the metrics handle ready
IssuedIncrements(deploymentKey, label, status) ==
  {p \in Procs :
     /\ IsIncrement(p) /\ Done(p)
     /\ \E i \in 1..Len(cmds[p]) : cmds[p][i].name = "hincrby"
     /\ call[p].deploymentKey = deploymentKey
     /\ call[p].label = label /\ call[p].status = status}

\* C7 as claimed: the same count for the n completed calls that found the
\* metrics handle ready, whether or not the store executed their hincrby.
C7_ReadyIncrementsCounted ==
  \A k \in DeploymentKeys, l \in IncLabels, st \in {DEPLOYMENT_SUCCEEDED, DEPLOYMENT_FAILED, DOWNLOADED} :
    LET n == Cardinality(IssuedIncrements(k, l, st))
    IN DbHGet(store[METRICS_DB], "deploymentKeyLabels:" \o k, l \o ":" \o st)
         = (IF n = 0 THEN Null ELSE DecStr(n))

\* C7 witness: two increments of the same field have completed and reached
\* the store.
C7_Witness ==
  \E k \in DeploymentKeys, l \in IncLabels :
    Cardinality(AppliedIncrements(k, l, DOWNLOADED)) = 2

IsRecordUpdate(p) == call[p].op = "recordUpdate"

PreviousGiven(c) == c.previousDeploymentKey # Undefined /\ c.previousLabel # Undefined

\* the i-th change the specification gives recordUpdate: hash, field, amount
ClaimedChange(c, i) ==
  CASE i = 1 -> [key |-> "deploymentKeyLabels:" \o c.deploymentKey,
                 field |-> c.label \o ":Active", by |-> 1]
    [] i = 2 -> [key |-> "deploymentKeyLabels:" \o c.deploymentKey,
                 field |-> c.label \o ":DeploymentSucceeded", by |-> 1]
    [] OTHER -> [key |-> "deploymentKeyLabels:" \o c.previousDeploymentKey,
                 field |-> c.previousLabel \o ":Active", by |-> 0 - 1]

ClaimedChanges(c) == {ClaimedChange(c, i) : i \in 1..(IF PreviousGiven(c) THEN 3 ELSE 2)}

\* the changes claimed for the completed recordUpdate calls, one per call and command
ClaimedDone ==
  {<<p, ch>> : p \in {q \in Procs : IsRecordUpdate(q) /\ Done(q) /\ cmds[q] # <<>>},
               ch \in UNION {ClaimedChanges(call[q]) : q \in Procs}}

ClaimedFor(key, field) ==
  {x \in ClaimedDone : x[2] \in ClaimedChanges(call[x[1]]) /\ x[2].key = key /\ x[2].field = field}

RECURSIVE SumBy(_)
SumBy(xs) == IF xs = {} THEN 0 ELSE LET x == CHOOSE y \in xs : TRUE IN x[2].by + SumBy(xs \ {x})

\* every batch submitted so far was executed in full
AllBatchesComplete ==
  \A p \in Procs :
    IsRecordUpdate(p) =>
      /\ pc[p] # "batch"
      /\ \A i \in 1..Len(cmds[p]) : cmds[p][i].ok

\* C8: when the recordUpdate calls made so far have completed with all their
\* commands executed, the metrics database holds exactly their claimed
\* changes: "<currentLabel>:Active" +1 and "<currentLabel>:DeploymentSucceeded"
\* +1 on the current key's hash and, iff both previous arguments were given,
\* "<previousLabel>:Active" -1 on the previous key's hash; no other field and
\* no other hash has changed.
C8_RecordUpdateChangesExactly ==
  AllBatchesComplete =>
    /\ \A k \in DeploymentKeys :
         LET hash == "deploymentKeyLabels:" \o k IN
         /\ IsHash(store[METRICS_DB], hash) =>
              \A f \in DOMAIN store[METRICS_DB][hash].val :
                /\ ClaimedFor(hash, f) # {}
                /\ store[METRICS_DB][hash].val[f] = DecStr(SumBy(ClaimedFor(hash, f)))
         /\ \A x \in ClaimedDone :
              (x[2] \in ClaimedChanges(call[x[1]]) /\ x[2].key = hash) =>
                DbHGet(store[METRICS_DB], hash, x[2].field) # Null
    /\ DOMAIN store[METRICS_DB] \subseteq
         {"health"} \cup {"deploymentKeyLabels:" \o k : k \in DeploymentKeys}
    /\ store[OPS_DB] = EmptyMap

\* C9: no client of the store ever reads a state in which some but not all
\* of the changes of a recordUpdate batch have been applied.
C9_NoTornRead == ~tornRead

\* the commands of p's batch that the store executed
AppliedOf(p) == {i \in 1..Len(cmds[p]) : cmds[p][i].ok}

\* C10: a recordUpdate that has completed has applied all the commands of its
\* batch or none of them.
C10_BatchAllOrNothing ==
  \A p \in Procs :
    (IsRecordUpdate(p) /\ Done(p)) =>
      (AppliedOf(p) = {} \/ AppliedOf(p) = 1..Len(batch[p]))

IsClear(p) == call[p].op = "clearMetricsForDeploymentKey"

\* p's clear completes in this step, having issued its del
ClearCompletes(p) == IsClear(p) /\ pc[p] = "ensure" /\ pc'[p] = "done" /\ Len(cmds'[p]) = 1

\* neither hash of the deployment key exists
MetricsGone(db, deploymentKey) ==
  /\ ("deploymentKeyLabels:" \o deploymentKey) \notin DOMAIN db
  /\ ("deploymentKeyClients:" \o deploymentKey) \notin DOMAIN db
  /\ MetricsOf(db, "deploymentKeyLabels:" \o deploymentKey) = ResolvedNull

\* C11 as claimed: when clearMetricsForDeploymentKey(k) completes, having
\* found the metrics handle ready, neither hash of k exists and
\* getMetricsWithDeploymentKey(k) returns none.
C11_ReadyClearRemovesBoth ==
  [][\A p \in Procs :
       ClearCompletes(p) => MetricsGone(store'[METRICS_DB], call[p].deploymentKey)]_vars

\* C11 amended: when clearMetricsForDeploymentKey(k) completes and the store
\* executed its del, neither deploymentKeyLabels:k nor deploymentKeyClients:k
\* exists in the metrics database, getMetricsWithDeploymentKey(k) returns none,
\* every other key of the store is as it was, and the call ends without a
\* value.
C11_ClearRemovesBoth ==
  [][\A p \in Procs :
       (ClearCompletes(p) /\ cmds'[p][1].ok) =>
         /\ MetricsGone(store'[METRICS_DB], call[p].deploymentKey)
         /\ result'[p] = ResolvedVoid
         /\ store'[OPS_DB] = store[OPS_DB]
         /\ \A key \in (DOMAIN store[METRICS_DB] \cup DOMAIN store'[METRICS_DB]) :
              key \notin {"deploymentKeyLabels:" \o call[p].deploymentKey,
                          "deploymentKeyClients:" \o call[p].deploymentKey} =>
                /\ key \in DOMAIN store[METRICS_DB] /\ key \in DOMAIN store'[METRICS_DB]
                /\ store'[METRICS_DB][key] = store[METRICS_DB][key]]_vars

\* C11 witness: a clear whose del was executed has removed both hashes that a
\* completed updateActiveAppForClient had written for the same key.
C11_Witness ==
  \E p \in Procs, q \in Procs :
    /\ IsClear(p) /\ Done(p) /\ Executed(p, "del")
    /\ call[q].op = "updateActiveAppForClient" /\ Done(q)
    /\ call[q].deploymentKey = call[p].deploymentKey
    /\ Len(cmds[q]) = 2 /\ cmds[q][1].ok /\ cmds[q][2].ok
    /\ MetricsGone(store[METRICS_DB], call[p].deploymentKey)

\* the setup attempts whose promise is pending
InFlight(as) == {i \in 1..Len(as) : as[i] \in {"start", "selected"}}

\* at most one attempt is pending, it is the memoized one and the last one
\* started, every attempt before the last has failed, and every call that
\* waits on a pending attempt waits on that one
OneAttempt ==
  /\ Cardinality(InFlight(attempts)) <= 1
  /\ \A i \in InFlight(attempts) : i = setupPromise /\ i = Len(attempts)
  /\ \A i \in 1..Len(attempts) :
       /\ attempts[i] = "resolved" => (i = Len(attempts) /\ i = setupPromise)
       /\ i < Len(attempts) => attempts[i] = "rejected"
  /\ \A p \in Procs :
       (pc[p] = "ensure" /\ awaiting[p] \in InFlight(attempts)) => awaiting[p] = setupPromise

\* C12: at most one metrics setup attempt is in flight at any time and none is
\* started after one has succeeded; the calls that invoke ensureMetricsSetup
\* while an attempt is pending all wait on that attempt; an attempt issues its
\* select once (it never returns to its start) and no select is issued by an
\* attempt that has succeeded.
C12_OneSetupAttempt ==
  [][/\ OneAttempt'
     /\ \A i \in 1..Len(attempts) :
          /\ attempts[i] # "start" => attempts'[i] # "start"
          /\ attempts[i] \in {"resolved", "rejected"} => attempts'[i] = attempts[i]
     /\ (\E i \in 1..Len(attempts) : attempts[i] = "resolved") => Len(attempts') = Len(attempts)
     /\ Len(attempts') \in {Len(attempts), Len(attempts) + 1}]_vars

\* C12 witness: two calls wait on the same attempt, whose select has been
\* executed and whose health write has not.
C12_Witness ==
  \E p \in Procs, q \in Procs :
    /\ p # q /\ pc[p] = "ensure" /\ pc[q] = "ensure"
    /\ awaiting[p] = awaiting[q] /\ attempts[awaiting[p]] = "selected"

\* p invokes a metrics method in this step
InvokesMetrics(p) == pc[p] = "idle" /\ pc'[p] # "idle"

InvalidIncrementCompletes(p) ==
  /\ IsIncrement(p) /\ ~isValidDeploymentStatus(call[p].status)
  /\ pc[p] # "done" /\ pc'[p] = "done"

\* C14: incrementLabelStatusCount with a status that is not recognized is a
\* no-op: the store executes no command of it, every hash of the store is as
\* it was, and the call ends without a value and without an error.
C14_InvalidStatusIsNoOp ==
  [][\A p \in Procs :
       InvalidIncrementCompletes(p) =>
         /\ store' = store
         /\ \A i \in 1..Len(cmds'[p]) : ~cmds'[p][i].ok
         /\ result'[p] = ResolvedVoid]_vars

IsHealth(p) == call[p].op = "checkHealth"

\* C15: checkHealth fails when the manager is disabled, without a ping; when
\* enabled it issues a ping on both handles, succeeds only if both pings were
\* answered, and ends with a failure as soon as one of them fails.
C15_HealthSurfacesFailure ==
  \A p \in Procs :
    IsHealth(p) =>
      /\ ~isEnabled => (Done(p) /\ result[p] = Rejected /\ pings[p] = NoPings)
      /\ isEnabled => (pings[p].ops # "none" /\ pings[p].metrics # "none")
      /\ result[p] = ResolvedVoid =>
           (pings[p].ops = "answered" /\ pings[p].metrics = "answered")
      /\ (pings[p].ops = "failed" \/ pings[p].metrics = "failed") =>
           (Done(p) /\ result[p] = Rejected)
      /\ (pings[p].ops = "answered" /\ pings[p].metrics = "answered") =>
           (Done(p) /\ result[p] = ResolvedVoid)
      /\ Done(p) => result[p] \in {Rejected, ResolvedVoid}

\* C15 witness: a checkHealth whose cache ping was answered has failed with
\* its metrics ping, and another one has succeeded.
C15_Witness ==
  \E p \in Procs, q \in Procs :
    /\ IsHealth(p) /\ result[p] = Rejected
    /\ pings[p].ops = "answered" /\ pings[p].metrics = "failed"
    /\ IsHealth(q) /\ result[q] = ResolvedVoid

\* the cache methods reach _safeCall in this step of p: at the invocation of
\* get and invalidate (of an enabled manager) and of a set whose response
\* serializes, in the continuation of exists, and in the continuation of hset
\* of a set that found the key new
CallsSafeCall(p) ==
  \/ /\ pc[p] = "idle" /\ pc'[p] # "idle"
     /\ \/ call'[p].op = "getCachedResponse"
        \/ call'[p].op = "invalidateCache" /\ opsClient # Undefined
        \/ call'[p].op = "setCachedResponse" /\ JSONStringify(call'[p].response) # Throws
  \/ pc[p] = "exists" /\ pc'[p] # "exists"
  \/ pc[p] = "hset" /\ pc'[p] # "hset" /\ isNewKey[p]

\* the command the step of p names
NamedCommand(p) ==
  CASE pc[p] = "exists" -> "hset"
    [] pc[p] = "hset" -> "expire"
    [] call'[p].op = "getCachedResponse" -> "hget"
    [] call'[p].op = "invalidateCache" -> "del"
    [] OTHER -> "exists"

\* C16: a step that calls _safeCall while the manager is disabled or the cache
\* handle is not ready issues no command, leaves the store as it was and ends
\* the call with its benign default (the rejection is handled, nothing is
\* thrown); a step that calls it on a ready handle issues exactly the named
\* command, once, on the key of the call, and a command the client library
\* refuses with a throw ends the call with its benign default too.  No other
\* step of a cache method issues a command.  This holds for each of the steps
\* of set (exists, hset, expire) on its own.
C16_SafeCallGuards ==
  [][\A p \in Procs :
       IF CallsSafeCall(p)
         THEN IF opsClient = "ready"
                THEN /\ Len(cmds'[p]) = Len(cmds[p]) + 1
                     /\ cmds'[p][Len(cmds'[p])].name = NamedCommand(p)
                     /\ cmds'[p][Len(cmds'[p])].client = "ops"
                     /\ cmds'[p][Len(cmds'[p])].key = call'[p].expiryKey
                     /\ result'[p].kind # "throws"
                     /\ ~cmds'[p][Len(cmds'[p])].ok =>
                          (store' = store /\ pc'[p] = "done" /\ result'[p].kind \in {"null", "void"})
                ELSE /\ cmds'[p] = cmds[p]
                     /\ store' = store
                     /\ pc'[p] = "done"
                     /\ result'[p].kind \in {"null", "void"}
         ELSE cmds'[p] = cmds[p]]_vars

\* C16 witness: a set whose exists was answered and whose hset was not issued,
\* the handle having stopped being ready in between.
C16_Witness ==
  \E p \in Procs :
    /\ IsSet(p) /\ Done(p) /\ result[p] = ResolvedVoid
    /\ Len(cmds[p]) = 1 /\ cmds[p][1].name = "exists" /\ cmds[p][1].ok

IsGetMetrics(p) == call[p].op = "getMetricsWithDeploymentKey"

\* p's getMetricsWithDeploymentKey completes in this step
GetMetricsCompletes(p) == IsGetMetrics(p) /\ pc[p] # "done" /\ pc'[p] = "done"

\* the step read the hash: its hgetall was issued and answered, and the hash exists
ReadsHash(p) ==
  /\ Len(cmds'[p]) = 1 /\ cmds'[p][1].ok
  /\ IsHash(store[METRICS_DB], "deploymentKeyLabels:" \o call[p].deploymentKey)

\* C17: getMetricsWithDeploymentKey(k) returns every field of hash
\* deploymentKeyLabels:k and no other; a field is converted exactly when its
\* stored value is the text of an integer, and is then that integer; a field
\* with any other value is returned as it is stored; the call returns none
\* when the hash does not exist or the store fails; the store is as it was.
C17_MetricsParsed ==
  [][\A p \in Procs :
       GetMetricsCompletes(p) =>
         /\ store' = store
         /\ IF ReadsHash(p)
              THEN LET stored == store[METRICS_DB]["deploymentKeyLabels:" \o call[p].deploymentKey].val
                   IN /\ result'[p].kind = "value"
                      /\ DOMAIN result'[p].val = DOMAIN stored
                      /\ \A f \in DOMAIN stored :
                           /\ IsNumeric(stored[f]) <=> IsDec(stored[f])
                           /\ IsDec(stored[f]) => result'[p].val[f] = ParseDec(stored[f])
                           /\ ~IsNumeric(stored[f]) => result'[p].val[f] = stored[f]
              ELSE result'[p].kind = "null"]_vars

IsGet(p) == call[p].op = "getCachedResponse"

\* p's getCachedResponse is invoked, and completes, in this step
GetCompletes(p) == pc[p] = "idle" /\ pc'[p] = "done" /\ call'[p].op = "getCachedResponse"

\* the texts that deserialize
Deserializable == {TextOk, TextNullBody}

\* C18: getCachedResponse(expiryKey, url) issues at most one command, a read
\* of the key, and leaves the store, fields and time to live, as it was; it
\* returns none when the handle is not ready, when the read fails, when the
\* field is absent and when the stored text does not deserialize, and the
\* deserialized response otherwise.
C18_GetReturnsNone ==
  [][\A p \in Procs :
       GetCompletes(p) =>
         LET stored == DbHGet(store[OPS_DB], call'[p].expiryKey, call'[p].url) IN
         /\ store' = store
         /\ Len(cmds'[p]) <= 1
         /\ \A i \in 1..Len(cmds'[p]) :
              cmds'[p][i].name = "hget" /\ cmds'[p][i].key = call'[p].expiryKey
         /\ IF /\ opsClient = "ready" /\ Len(cmds'[p]) = 1 /\ cmds'[p][1].ok
               /\ stored \in Deserializable
              THEN result'[p].kind = "value"
              ELSE result'[p] = ResolvedNull]_vars

\* C18 witness: a get read a field no client has written and returned none,
\* and a get whose read failed returned none, while another field of the key
\* holds a text that does not deserialize.
C18_Witness ==
  \E p \in Procs, q \in Procs, k \in ExpiryKeys, u \in Urls :
    /\ IsGet(p) /\ Done(p) /\ Executed(p, "hget") /\ result[p] = ResolvedNull
    /\ call[p].expiryKey = k /\ IsHash(store[OPS_DB], k)
    /\ DbHGet(store[OPS_DB], k, call[p].url) = Null
    /\ DbHGet(store[OPS_DB], k, u) = "{not json"
    /\ IsGet(q) /\ Done(q) /\ Len(cmds[q]) = 1 /\ ~cmds[q][1].ok /\ result[q] = ResolvedNull

IsInvalidate(p) == call[p].op = "invalidateCache"

\* a set of the key was invoked after q was (callers are invoked in the order
\* of their index)
SetInvokedAfter(q, expiryKey) ==
  \E p \in Procs : p > q /\ IsSet(p) /\ call[p].expiryKey = expiryKey

\* C19: once an invalidate of a key has completed and the store executed its
\* del, a get returns none for every url of the key as long as no set of the
\* key has been invoked after the invalidate; a set that was in progress when
\* the invalidate ran does not make its response readable.
C19_InvalidateHides ==
  \A q \in Procs :
    (/\ IsInvalidate(q) /\ Done(q) /\ Executed(q, "del")
     /\ ~SetInvokedAfter(q, call[q].expiryKey)) =>
      \A u \in Urls : GetNow(call[q].expiryKey, u).kind = "null"

IsUpdateActive(p) == call[p].op = "updateActiveAppForClient"

\* the completed updateActiveAppForClient calls whose batch was submitted
UpdatesDone == {p \in Procs : IsUpdateActive(p) /\ Done(p) /\ cmds[p] # <<>>}

\* the counter changes the specification gives updateActiveAppForClient:
\* field and amount, for a call
ClaimedActive(c) ==
  {[field |-> c.toLabel \o ":Active", by |-> 1]}
  \cup (IF c.fromLabel # Undefined
          THEN {[field |-> c.fromLabel \o ":Active", by |-> 0 - 1]}
          ELSE {})

ClaimedActiveFor(deploymentKey, field) ==
  {x \in {<<p, ch>> : p \in UpdatesDone, ch \in UNION {ClaimedActive(call[q]) : q \in Procs}} :
     /\ x[2] \in ClaimedActive(call[x[1]])
     /\ call[x[1]].deploymentKey = deploymentKey /\ x[2].field = field}

\* every batch of updateActiveAppForClient submitted so far was executed in full
AllUpdatesComplete ==
  \A p \in Procs :
    IsUpdateActive(p) =>
      /\ pc[p] # "batch"
      /\ \A i \in 1..Len(cmds[p]) : cmds[p][i].ok

\* C20: when the updateActiveAppForClient calls made so far have completed
\* with all their commands executed, deploymentKeyClients:k maps each client
\* to the toLabel of one of its calls, deploymentKeyLabels:k holds exactly the
\* claimed changes ("<toLabel>:Active" +1 and, iff fromLabel was given,
\* "<fromLabel>:Active" -1) and no other field, and getCurrentActiveLabel then
\* returns the client's toLabel; a getCurrentActiveLabel that has completed
\* returned none or the toLabel of a call for that client.
C20_UpdateActiveExactly ==
  /\ AllUpdatesComplete =>
       \A k \in CurrentKeys :
         /\ \A p \in UpdatesDone :
              call[p].deploymentKey = k =>
                /\ ActiveLabelOf(store[METRICS_DB], k, call[p].clientUniqueId).kind = "value"
                /\ ActiveLabelOf(store[METRICS_DB], k, call[p].clientUniqueId).val
                     \in {call[q].toLabel : q \in UpdatesDone}
                /\ \A ch \in ClaimedActive(call[p]) :
                     DbHGet(store[METRICS_DB], "deploymentKeyLabels:" \o k, ch.field) # Null
         /\ IsHash(store[METRICS_DB], "deploymentKeyLabels:" \o k) =>
              \A f \in DOMAIN store[METRICS_DB]["deploymentKeyLabels:" \o k].val :
                /\ ClaimedActiveFor(k, f) # {}
                /\ store[METRICS_DB]["deploymentKeyLabels:" \o k].val[f]
                     = DecStr(SumBy(ClaimedActiveFor(k, f)))
         /\ IsHash(store[METRICS_DB], "deploymentKeyClients:" \o k) =>
              DOMAIN store[METRICS_DB]["deploymentKeyClients:" \o k].val
                \subseteq {call[p].clientUniqueId : p \in UpdatesDone}
  /\ \A p \in Procs :
       (call[p].op = "getCurrentActiveLabel" /\ Done(p) /\ result[p].kind = "value") =>
         \E q \in Procs :
           /\ IsUpdateActive(q) /\ call[q].clientUniqueId = call[p].clientUniqueId
           /\ result[p].val = call[q].toLabel

\* p is a completed set that found the cache handle ready at each of its
\* steps and whose commands the store all executed: exists and hset, and
\* expire when it had found the key absent
RanReady(p) ==
  /\ IsSet(p) /\ Done(p)
  /\ Len(cmds[p]) = (IF isNewKey[p] THEN 3 ELSE 2)
  /\ \A i \in 1..Len(cmds[p]) : cmds[p][i].ok

\* C21: when two set calls on the same, initially absent key have run with
\* the cache handle ready and both have completed, the hash they wrote, as
\* long as it exists, has a time to live, and when one of the two found the
\* hash of the other it holds the fields of both: no interleaving of the
\* exists / hset / expire sequences loses a field or leaves the hash without
\* an expiry.
C21_ConcurrentSetsKeepExpiry ==
  \A p \in Procs, q \in Procs :
    (/\ p # q /\ RanReady(p) /\ RanReady(q)
     /\ call[p].expiryKey = call[q].expiryKey
     /\ call[p].expiryKey \in DOMAIN store[OPS_DB]) =>
      /\ DbTTL(store[OPS_DB], call[p].expiryKey) # NoExpiry
      /\ (~isNewKey[p] \/ ~isNewKey[q]) =>
           /\ CachedField(call[p].expiryKey, call[p].url) # Null
           /\ CachedField(call[q].expiryKey, call[q].url) # Null


\* the number a counter field stands for: an absent field counts as 0
CounterOf(db, key, field) ==
  IF DbHGet(db, key, field) = Null THEN 0 ELSE ParseDec(DbHGet(db, key, field))

\* this step is the execution of the next command of p's batch, an hincrby
IncrementStep(p) ==
  /\ pc[p] = "batch" /\ Len(cmds'[p]) = Len(cmds[p]) + 1
  /\ cmds'[p][Len(cmds'[p])].ok
  /\ batch[p][Len(cmds'[p])].name = "hincrby"

\* this step is a clearMetricsForDeploymentKey whose del removes the key
ClearStep(key) ==
  \E p \in Procs :
    /\ IsClear(p) /\ pc[p] = "ensure" /\ Done(p)'
    /\ key \in ClearedKeys(call[p].deploymentKey)
    /\ key \notin DOMAIN store'[METRICS_DB]

\* C22: counters are never clamped.  Every executed hincrby of a recordUpdate
\* or updateActiveAppForClient batch changes its field by exactly its amount,
\* an absent field counting as 0, so a -1 on an absent or zero Active field
\* leaves -1; and a field that holds a negative count changes only by such an
\* increment or by the del of clearMetricsForDeploymentKey.
C22_CountersNeverClamped ==
  [][/\ \A p \in Procs :
          IncrementStep(p) =>
            LET c == batch[p][Len(cmds'[p])] IN
            CounterOf(store'[METRICS_DB], c.key, c.field)
              = CounterOf(store[METRICS_DB], c.key, c.field) + c.arg
     /\ \A key \in DOMAIN store[METRICS_DB] :
          IsHash(store[METRICS_DB], key) =>
            \A field \in DOMAIN store[METRICS_DB][key].val :
              (/\ IsDec(store[METRICS_DB][key].val[field])
               /\ ParseDec(store[METRICS_DB][key].val[field]) < 0
               /\ DbHGet(store'[METRICS_DB], key, field) # store[METRICS_DB][key].val[field]) =>
                \/ ClearStep(key)
                \/ \E p \in Procs :
                     /\ IncrementStep(p)
                     /\ batch[p][Len(cmds'[p])].key = key
                     /\ batch[p][Len(cmds'[p])].field = field]_vars

\* C22 witness: completed transitions, applied to a label whose Active field
\* was absent, have left "v1:Active" of dep1 at -1.
C22_Witness ==
  /\ DbHGet(store[METRICS_DB], getDeploymentKeyLabelsHash("dep1"), getLabelActiveCountField("v1")) = "-1"
  /\ \E p \in Procs :
       /\ call[p].op \in {"recordUpdate", "updateActiveAppForClient"} /\ Done(p)
       /\ Len(cmds[p]) = 3 /\ cmds[p][3].ok


\* the setup attempt the call of p got from ensureMetricsSetup has succeeded
SetupSucceededFor(p) ==
  /\ awaiting[p] \in 1..Len(attempts)
  /\ attempts[awaiting[p]] = "resolved"

\* in this step the call of p issues a data command on the metrics handle, or
\* submits a batch of them
IssuesData(p) ==
  \/ Len(cmds'[p]) = Len(cmds[p]) + 1 /\ cmds'[p][Len(cmds'[p])].client = "metrics"
  \/ batch'[p] # batch[p]

\* C23: a data command (hincrby, hgetall, hget, hdel, del or a batch) is
\* issued on the metrics handle only by a call whose setup attempt had
\* succeeded before, with the metrics database selected and the health key
\* written to it; a call whose setup is unavailable or has failed completes
\* without having issued any data command.
C23_DataOnlyAfterSetup ==
  [][\A p \in Procs :
       /\ IssuesData(p) =>
            /\ SetupSucceededFor(p)
            /\ selectedDb = METRICS_DB
       /\ (Done(p)' /\ ~SetupSucceededFor(p)) => (cmds'[p] = <<>> /\ batch'[p] = <<>>)]_vars

\* C23 witness: one call has issued its data command after the setup it
\* waited on succeeded, and another, whose setup attempt failed, has completed
\* without a command.
C23_Witness ==
  \E p \in Procs, q \in Procs :
    /\ Done(p) /\ SetupSucceededFor(p) /\ Executed(p, "hincrby")
    /\ Done(q) /\ awaiting[q] \in 1..Len(attempts) /\ attempts[awaiting[q]] = "rejected"
    /\ cmds[q] = <<>>


CacheOps == {"getCachedResponse", "setCachedResponse", "invalidateCache"}

\* this step is a step of the call of p: its invocation or a continuation
StepOf(p) == pc'[p] # pc[p] \/ cmds'[p] # cmds[p]

\* the handles of the commands the call of p has issued
ClientsOf(p) == {cmds'[p][i].client : i \in 1..Len(cmds'[p])}

\* C24: cache and metrics state are disjoint.  A cache operation issues
\* commands on the cache handle only and none of its steps changes the metrics
\* database; a metrics operation issues commands on the metrics handle only
\* and none of its steps, and no step of the setup, changes the cache database
\* (a cache hash, or its time to live); this for an expiryKey that is the
\* name of a label-counters hash too.
C24_CacheAndMetricsDisjoint ==
  [][/\ \A p \in Procs :
          StepOf(p) =>
            IF call'[p].op \in CacheOps
              THEN ClientsOf(p) \subseteq {"ops"} /\ store'[METRICS_DB] = store[METRICS_DB]
              ELSE ClientsOf(p) \subseteq {"metrics"} /\ store'[OPS_DB] = store[OPS_DB]
     /\ attempts' # attempts => store'[OPS_DB] = store[OPS_DB]]_vars

\* C24 witness: the cache holds a hash with a time to live under the name of
\* the label-counters hash of dep1, with a response under the name of one of
\* its counters, while the metrics database holds that counter at 1.
C24_Witness ==
  /\ DbHGet(store[OPS_DB], CollidingKey, CollidingUrl) = JSONStringify(ROk)
  /\ DbTTL(store[OPS_DB], CollidingKey) # NoExpiry
  /\ DbHGet(store[METRICS_DB], CollidingKey, CollidingUrl) = "1"


\* the sum of the "<label>:Active" fields of a hash, over the given labels
RECURSIVE ActiveSum(_, _, _)
ActiveSum(db, key, labels) ==
  IF labels = {} THEN 0
  ELSE LET l == CHOOSE x \in labels : TRUE
       IN CounterOf(db, key, l \o ":Active") + ActiveSum(db, key, labels \ {l})

\* the recordUpdate calls that have completed with their batch executed
SuccessfulUpdates == {p \in Procs : IsRecordUpdate(p) /\ Done(p) /\ cmds[p] # <<>>}

\* every recordUpdate call made so far is confined to the deployment key
ConfinedTo(deploymentKey) ==
  \A p \in Procs :
    IsRecordUpdate(p) =>
      /\ call[p].deploymentKey = deploymentKey
      /\ call[p].previousDeploymentKey \in {Undefined, deploymentKey}

\* C25: Active counts are conserved across transitions.  When the
\* recordUpdate calls made so far are confined to a deployment key k and each
\* has either not acted yet or completed with all its commands executed, the
\* sum of the "<label>:Active" fields of deploymentKeyLabels:k equals the
\* number of completed calls made without a previous pair: a call with a
\* previous pair leaves the sum unchanged and one without raises it by 1.
C25_ActiveConserved ==
  \A k \in CurrentKeys :
    (ConfinedTo(k) /\ AllBatchesComplete) =>
      ActiveSum(store[METRICS_DB], "deploymentKeyLabels:" \o k, LabelInputs)
        = Cardinality({p \in SuccessfulUpdates : ~PreviousGiven(call[p])})


\* the handle the operation of p issues its commands on is not ready
HandleNotReady(op) ==
  IF op \in CacheOps THEN ~Ready(opsClient) ELSE ~Ready(metricsClient)

====
